---- MODULE Spec2Model ----
(***************************************************************************)
(* Model of disable_services.py: main() walks the static SERVICES list,    *)
(* asks systemctl for the unit-file listing, and for every unit found      *)
(* issues "systemctl stop" and "systemctl disable".  Every external        *)
(* command is a blocking subprocess.run call whose outcome (exit code,     *)
(* output text, or an exception on launch) is chosen by the environment.   *)
(*                                                                         *)
(* Text is modelled after tokenisation: a line is a sequence of            *)
(* whitespace-separated tokens (a blank or whitespace-only line is <<>>),  *)
(* and an output is a sequence of lines.                                   *)
(***************************************************************************)
EXTENDS Integers, Sequences, FiniteSets, TLC

VARIABLES
    host,       \* the machine: for each unit, installed / active / enabled
    haveSysctl, \* whether which("systemctl") finds the binary
    run,        \* number of the current invocation of main
    useSudo,    \* os.geteuid() != 0 in the current invocation
    pc,         \* position of main
    i,          \* index into SERVICES of the loop variable svc
    inflight,   \* the commands launched and not yet returned
    res,        \* (code, out, err) of the last run_command, while in scope
    reported,   \* what service_exists returned for each service in this run
    log,        \* commands issued in this run, in order
    console,    \* messages printed in this run, in order
    exitStatus, \* exit status of the process (meaningful when pc = "exited")
    failed,     \* some command of this run returned nonzero or did not launch
    prevDone,   \* the previous run stopped and disabled every installed service
    fnSvc,      \* argument of a stand-alone service_exists call
    fnOut,      \* outcome of the listing command in that call
    fnRet       \* what that call did: "none" before it ran

vars == <<host, haveSysctl, run, useSudo, pc, i, inflight, res, reported,
          log, console, exitStatus, failed, prevDone, fnSvc, fnOut, fnRet>>

mainVars == <<host, haveSysctl, run, useSudo, pc, i, inflight, res, reported,
              log, console, exitStatus, failed, prevDone>>

fnVars == <<fnSvc, fnOut, fnRet>>

----------------------------------------------------------------------------
(* Bounds *)

\* how many names at the head of SERVICES a run of main walks through
NumServices == 2

\* largest number of lines in the raw output of the listing command
MaxLines == 3

\* how many times main is invoked against the same host
MaxRuns == 2

----------------------------------------------------------------------------
(* Program constants *)

SERVICES ==
    <<"vsftpd", "proftpd", "ssh", "postfix", "apache2", "rpcbind", "exim4",
      "avahi-daemon", "ModemManager">>

\* the part of SERVICES the loop of main covers within the bound
Svcs == SubSeq(SERVICES, 1, NumServices)

SvcSet == {Svcs[k] : k \in 1..Len(Svcs)}

AllSvcSet == {SERVICES[k] : k \in 1..Len(SERVICES)}

\* no run_command result is in scope
NoRes == [code |-> 0, out |-> <<>>, err |-> <<>>]

\* f"{svc}.service"
Target(svc) == svc \o ".service"

\* cmd of service_exists, after the shell has split it into words
ListCmd ==
    <<"systemctl", "list-unit-files", "--type=service", "--all",
      "--no-legend", "--no-pager">>

\* sudo = "sudo " if use_sudo else ""
Sudo(use_sudo) == IF use_sudo THEN <<"sudo">> ELSE <<>>

\* f"{sudo}systemctl stop {svc}".split()
StopCmd(use_sudo, svc) == Sudo(use_sudo) \o <<"systemctl", "stop", svc>>

\* f"{sudo}systemctl disable {svc}".split()
DisableCmd(use_sudo, svc) == Sudo(use_sudo) \o <<"systemctl", "disable", svc>>

\* the systemctl subcommand of an argument vector
Verb(argv) == IF Head(argv) = "sudo" THEN argv[3] ELSE argv[2]

----------------------------------------------------------------------------
(* Text helpers *)

IsBlank(line) == Len(line) = 0

RECURSIVE LStrip(_)
LStrip(text) ==
    IF text = <<>> THEN <<>>
    ELSE IF IsBlank(Head(text)) THEN LStrip(Tail(text))
    ELSE text

RECURSIVE RStrip(_)
RStrip(text) ==
    IF text = <<>> THEN <<>>
    ELSE IF IsBlank(text[Len(text)]) THEN RStrip(SubSeq(text, 1, Len(text) - 1))
    ELSE text

\* str.strip(): leading and trailing whitespace, hence leading and trailing
\* blank lines, are removed; blank lines in the middle stay
Strip(text) == RStrip(LStrip(text))

\* outcome of subprocess.run: the process completed, or launching it raised
Completed(code, stdout, stderr) ==
    [kind |-> "completed", code |-> code, stdout |-> stdout, stderr |-> stderr]

Raised(e) ==
    [kind |-> "raised", code |-> 0, stdout |-> <<>>, stderr |-> e]

\* run_command: (returncode, stdout.strip(), stderr.strip()), or
\* (1, "", str(e)) when subprocess.run raises
RunCommand(o) ==
    IF o.kind = "completed"
    THEN [code |-> o.code, out |-> Strip(o.stdout), err |-> Strip(o.stderr)]
    ELSE [code |-> 1, out |-> <<>>, err |-> o.stderr]

\* variant: the exit code of the listing is not looked at
ListingUnusableNoCode(r) == r.out = <<>>

\* the check "code != 0 or not out" at the head of service_exists
ListingUnusable(r) == r.code # 0 \/ r.out = <<>>

\* the for loop of service_exists over out.splitlines(): line.split()[0]
\* raises IndexError on a line without tokens
RECURSIVE ScanLines(_, _)
ScanLines(lines, target) ==
    IF lines = <<>> THEN "False"
    ELSE IF IsBlank(Head(lines)) THEN "IndexError"
    ELSE IF Head(Head(lines)) = target THEN "True"
    ELSE ScanLines(Tail(lines), target)

\* service_exists(svc), given what run_command returned for the listing
ServiceExists(svc, r) ==
    IF ListingUnusable(r) THEN "False" ELSE ScanLines(r.out, Target(svc))

----------------------------------------------------------------------------
(* Environment: what the external commands can answer *)

\* all sequences of at most n elements of S
RECURSIVE SeqsUpTo(_, _)
SeqsUpTo(S, n) ==
    IF n = 0 THEN {<<>>}
    ELSE LET shorter == SeqsUpTo(S, n - 1)
         IN  shorter \cup {Append(t, l) : t \in {u \in shorter : Len(u) = n - 1}, l \in S}

ErrText == <<<<"Failed">>>>

ExcText == <<<<"FileNotFoundError">>>>

\* lines a listing may hold when main asks about svc
MainLines(svc) ==
    { <<>>,
      <<Target(svc), "enabled">>,
      <<svc \o "d.service", "enabled">> }

\* answers to the listing command inside main
MainListOutcomes(svc) ==
    {Completed(0, t, <<>>) : t \in SeqsUpTo(MainLines(svc), MaxLines)}
    \cup {Completed(1, <<>>, ErrText),
          Completed(1, << <<Target(svc), "enabled">> >>, ErrText),
          Raised(ExcText)}

\* lines a listing may hold in a stand-alone call of service_exists(svc)
FnLines(svc) ==
    { <<>>,
      <<Target(svc)>>,
      <<Target(svc), "enabled">>,
      <<svc \o "d.service", "enabled">>,
      <<svc \o "@.service", "static">>,
      <<"enabled", Target(svc)>> }

FnListOutcomes(svc) ==
    {Completed(c, t, <<>>) : c \in {0, 1}, t \in SeqsUpTo(FnLines(svc), MaxLines)}
    \cup {Raised(ExcText)}

\* answers to a stop or disable command; exit code 0 needs an installed unit
StateCmdOutcomes(svc) ==
    {Completed(1, <<>>, ErrText), Raised(ExcText)}
    \cup (IF host[svc].installed THEN {Completed(0, <<>>, <<>>)} ELSE {})

Missing == [installed |-> FALSE, active |-> FALSE, enabled |-> FALSE]

Running == [installed |-> TRUE, active |-> TRUE, enabled |-> TRUE]

Off == [installed |-> TRUE, active |-> FALSE, enabled |-> FALSE]

----------------------------------------------------------------------------
(* main *)

Msg(kind, svc) == [msg |-> kind, svc |-> svc]

Issued(argv, svc) == [argv |-> argv, svc |-> svc]

\* variant: the list is walked from its end
svcReversed == Svcs[Len(Svcs) + 1 - i]

\* the loop variable of main
svc == Svcs[i]

\* variant: the availability check never fires
SystemctlMissingIgnored(have) == FALSE

\* "if not have_systemctl():" of main
SystemctlMissing(have) == ~have

\* variant: the "continue" of the not-found branch is lost
AfterExistsNoSkip(ret) == IF ret = "IndexError" THEN "crash" ELSE "stop"

\* what main does with the value of service_exists(svc)
AfterExists(ret) ==
    IF ret = "IndexError" THEN "crash"
    ELSE IF ret = "False" THEN "continue"
    ELSE "stop"

\* the command main issues once service_exists(svc) returned true
FirstCmd(use_sudo, s) == StopCmd(use_sudo, s)

\* variant: the second command repeats the first
SecondCmdStopAgain(use_sudo, s) == StopCmd(use_sudo, s)

\* the command main issues once the stop command returned
SecondCmd(use_sudo, s) == DisableCmd(use_sudo, s)

Init ==
    /\ host \in [SvcSet -> {Missing, Running, Off}]
    /\ haveSysctl \in BOOLEAN
    /\ run = 1
    /\ useSudo = FALSE
    /\ pc = "start"
    /\ i = 1
    /\ inflight = {}
    /\ res = NoRes
    /\ reported = [s \in SvcSet |-> "none"]
    /\ log = <<>>
    /\ console = <<>>
    /\ exitStatus = 0
    /\ failed = FALSE
    /\ prevDone = FALSE
    /\ fnSvc = "vsftpd"
    /\ fnOut = Raised(ExcText)
    /\ fnRet = "none"

\* lines 85-90: read the effective uid, give up when systemctl is not on PATH
Start ==
    /\ pc = "start"
    /\ \E u \in BOOLEAN : useSudo' = u
    /\ IF SystemctlMissing(haveSysctl)
       THEN /\ console' = Append(console, Msg("no_systemctl", ""))
            /\ exitStatus' = 1
            /\ pc' = "exited"
       ELSE /\ pc' = "loop"
            /\ UNCHANGED <<console, exitStatus>>
    /\ UNCHANGED <<host, haveSysctl, run, i, inflight, res, reported, log,
                   failed, prevDone>>
    /\ UNCHANGED fnVars

\* lines 92-95 and 72-73: next svc, print "Checking", launch the listing
IssueList ==
    /\ pc = "loop"
    /\ i <= Len(Svcs)
    /\ console' = Append(console, Msg("checking", svc))
    /\ inflight' = inflight \cup {Issued(ListCmd, svc)}
    /\ log' = Append(log, Issued(ListCmd, svc))
    /\ pc' = "list_wait"
    /\ UNCHANGED <<host, haveSysctl, run, useSudo, i, res, reported, exitStatus,
                   failed, prevDone>>
    /\ UNCHANGED fnVars

\* line 73: the listing command returns (or could not be launched)
ListReturn ==
    /\ pc = "list_wait"
    /\ \E o \in MainListOutcomes(svc) :
          /\ res' = RunCommand(o)
          /\ failed' = (failed \/ RunCommand(o).code # 0)
    /\ inflight' = inflight \ {Issued(ListCmd, svc)}
    /\ pc' = "scan"
    /\ UNCHANGED <<host, haveSysctl, run, useSudo, i, reported, log, console,
                   exitStatus, prevDone>>
    /\ UNCHANGED fnVars

\* lines 74-81 and 95-102: service_exists decides and returns (its locals go
\* out of scope), main skips the service, launches the stop command, or dies
\* of the uncaught IndexError
Scan ==
    /\ pc = "scan"
    /\ LET ret == ServiceExists(svc, res)
           todo == AfterExists(ret)
       IN  /\ reported' = [reported EXCEPT ![svc] = ret]
           /\ CASE todo = "crash" ->
                     /\ console' = Append(console, Msg("traceback", svc))
                     /\ exitStatus' = 1
                     /\ pc' = "exited"
                     /\ UNCHANGED <<i, inflight, log>>
                [] todo = "continue" ->
                     /\ console' = Append(console, Msg("not_found", svc))
                     /\ i' = i + 1
                     /\ pc' = "loop"
                     /\ UNCHANGED <<inflight, log, exitStatus>>
                [] OTHER ->
                     /\ console' = Append(console, Msg("exists", svc))
                     /\ inflight' = inflight \cup {Issued(FirstCmd(useSudo, svc), svc)}
                     /\ log' = Append(log, Issued(FirstCmd(useSudo, svc), svc))
                     /\ pc' = "stop_wait"
                     /\ UNCHANGED <<i, exitStatus>>
    /\ res' = NoRes
    /\ UNCHANGED <<host, haveSysctl, run, useSudo, failed, prevDone>>
    /\ UNCHANGED fnVars

\* the effect of a state-changing command on the machine: it acts only when
\* it exits with 0
HostAfter(argv, o) ==
    IF o.kind = "completed" /\ o.code = 0
    THEN LET u == argv[Len(argv)]
         IN  IF Verb(argv) = "stop" THEN [host EXCEPT ![u].active = FALSE]
             ELSE IF Verb(argv) = "disable" THEN [host EXCEPT ![u].enabled = FALSE]
             ELSE host
    ELSE host

\* lines 102-109: the stop command returns, its result is printed and the
\* disable command is launched
StopReturn ==
    /\ pc = "stop_wait"
    /\ \E o \in StateCmdOutcomes(svc) :
          /\ res' = RunCommand(o)
          /\ failed' = (failed \/ RunCommand(o).code # 0)
          /\ host' = HostAfter(log[Len(log)].argv, o)
          /\ console' = Append(console,
                 Msg(IF RunCommand(o).code = 0 THEN "stopped" ELSE "could_not_stop", svc))
    /\ inflight' = (inflight \ {log[Len(log)]})
                       \cup {Issued(SecondCmd(useSudo, svc), svc)}
    /\ log' = Append(log, Issued(SecondCmd(useSudo, svc), svc))
    /\ pc' = "disable_wait"
    /\ UNCHANGED <<haveSysctl, run, useSudo, i, reported, exitStatus, prevDone>>
    /\ UNCHANGED fnVars

\* lines 109-113: the disable command returns, its result is printed and the
\* loop goes on
DisableReturn ==
    /\ pc = "disable_wait"
    /\ \E o \in StateCmdOutcomes(svc) :
          /\ res' = RunCommand(o)
          /\ failed' = (failed \/ RunCommand(o).code # 0)
          /\ host' = HostAfter(log[Len(log)].argv, o)
          /\ console' = Append(console,
                 Msg(IF RunCommand(o).code = 0 THEN "disabled" ELSE "could_not_disable", svc))
    /\ inflight' = inflight \ {log[Len(log)]}
    /\ i' = i + 1
    /\ pc' = "loop"
    /\ UNCHANGED <<haveSysctl, run, useSudo, reported, log, exitStatus, prevDone>>
    /\ UNCHANGED fnVars

\* line 115: the list is exhausted, the last message is printed, main returns
Finish ==
    /\ pc = "loop"
    /\ i > Len(Svcs)
    /\ console' = Append(console, Msg("processed", ""))
    /\ exitStatus' = 0
    /\ pc' = "exited"
    /\ UNCHANGED <<host, haveSysctl, run, useSudo, i, inflight, res, reported, log,
                   failed, prevDone>>
    /\ UNCHANGED fnVars

\* every installed service was reported "Stopped" and "Disabled" by a run that
\* ended with exit status 0
StoppedAndDisabledAll ==
    /\ exitStatus = 0
    /\ \E s \in SvcSet : host[s].installed
    /\ \A s \in SvcSet : host[s].installed =>
          /\ \E k \in 1..Len(console) : console[k] = Msg("stopped", s)
          /\ \E k \in 1..Len(console) : console[k] = Msg("disabled", s)

\* the script is run again on the same machine (a new process)
Rerun ==
    /\ pc = "exited"
    /\ run < MaxRuns
    /\ run' = run + 1
    /\ pc' = "start"
    /\ i' = 1
    /\ inflight' = {}
    /\ failed' = FALSE
    /\ prevDone' = StoppedAndDisabledAll
    /\ res' = NoRes
    /\ reported' = [s \in SvcSet |-> "none"]
    /\ log' = <<>>
    /\ console' = <<>>
    /\ exitStatus' = 0
    /\ UNCHANGED <<host, haveSysctl, useSudo>>
    /\ UNCHANGED fnVars

Next ==
    \/ Start
    \/ IssueList
    \/ ListReturn
    \/ Scan
    \/ StopReturn
    \/ DisableReturn
    \/ Finish
    \/ Rerun

Spec == Init /\ [][Next]_vars

----------------------------------------------------------------------------
(* service_exists on its own *)

InitFn ==
    /\ host = [s \in SvcSet |-> Missing]
    /\ haveSysctl = TRUE
    /\ run = 1
    /\ useSudo = FALSE
    /\ pc = "start"
    /\ i = 1
    /\ inflight = {}
    /\ res = NoRes
    /\ reported = [s \in SvcSet |-> "none"]
    /\ log = <<>>
    /\ console = <<>>
    /\ exitStatus = 0
    /\ failed = FALSE
    /\ prevDone = FALSE
    /\ fnSvc \in AllSvcSet
    /\ fnOut \in FnListOutcomes(fnSvc)
    /\ fnRet = "none"

\* one call service_exists(fnSvc) with fnOut as the listing command's outcome
CallServiceExists ==
    /\ fnRet = "none"
    /\ fnRet' = ServiceExists(fnSvc, RunCommand(fnOut))
    /\ UNCHANGED <<fnSvc, fnOut>>
    /\ UNCHANGED mainVars

NextFn == CallServiceExists

SpecFn == InitFn /\ [][NextFn]_vars

----------------------------------------------------------------------------
(* Properties *)

\* the unit a stop or disable command names
CmdUnit(e) == e.argv[Len(e.argv)]

IsStateCmd(e) == Verb(e.argv) \in {"stop", "disable"}

\* the stop and disable commands issued for unit s in this run, in order
StateCmdsFor(s) == SelectSeq(log, LAMBDA e : IsStateCmd(e) /\ CmdUnit(e) = s)

VerbsOf(es) == [k \in 1..Len(es) |-> Verb(es[k].argv)]

Printed(m) == \E k \in 1..Len(console) : console[k] = m

\* position of a service in SERVICES
IndexOf(s) == CHOOSE k \in 1..Len(SERVICES) : SERVICES[k] = s

\* the existence query was issued for every service of the list
AllChecked ==
    \A s \in SvcSet : \E k \in 1..Len(log) :
        log[k].svc = s /\ Verb(log[k].argv) = "list-unit-files"

AllOff == \A s \in SvcSet : host[s].installed => ~host[s].active /\ ~host[s].enabled

\* C1: a service that service_exists reported absent gets neither a stop nor
\* a disable command in that run
C1_AbsentNeverStopped ==
    \A s \in SvcSet : reported[s] = "False" => StateCmdsFor(s) = <<>>

\* a finished run that skipped one service and stopped and disabled another
C1_Witness ==
    /\ pc = "exited"
    /\ exitStatus = 0
    /\ \E s \in SvcSet : reported[s] = "False"
    /\ \E s \in SvcSet : reported[s] = "True" /\ Len(StateCmdsFor(s)) = 2

C3_ExitZeroWhenSystemctlPresent ==
    (pc = "exited" /\ haveSysctl) => exitStatus = 0

\* C4: without systemctl main halts with exit status 1 before the loop: no
\* command is issued and the final message is never printed
C4_NoSystemctlHaltsEarly ==
    ~haveSysctl =>
        /\ pc \in {"start", "exited"}
        /\ log = <<>>
        /\ inflight = {}
        /\ ~Printed(Msg("processed", ""))
        /\ (pc = "exited" => exitStatus = 1 /\ Printed(Msg("no_systemctl", "")))

\* a run that halted because systemctl is missing
C4_Witness == pc = "exited" /\ ~haveSysctl /\ exitStatus = 1

\* C5: a run in which some command failed still checks every service of the
\* list and reaches the final message
C5_FailuresAreNotFatal ==
    (pc = "exited" /\ haveSysctl /\ failed) =>
        /\ AllChecked
        /\ Printed(Msg("processed", ""))

\* C6: a run against a host whose installed services the previous run stopped
\* and disabled visits every service, ends with exit status zero and leaves
\* the services stopped and disabled
C6_RerunIsHarmless ==
    (run > 1 /\ prevDone) =>
        /\ AllOff
        /\ (pc = "exited" => exitStatus = 0 /\ AllChecked)

\* C7: no stop and no disable command is issued for a service that is missing
\* or that is already disabled when the command is issued
C7_DisabledServicesSkipped ==
    [][(Len(log') = Len(log) + 1 /\ IsStateCmd(log'[Len(log')])) =>
          LET u == CmdUnit(log'[Len(log')])
          IN  /\ reported'[u] # "False"
              /\ ~(host[u].installed /\ ~host[u].enabled)]_vars

\* C8: commands run one at a time and in list order: at most one command is
\* in flight and it is the last one issued, the commands follow the order of
\* SERVICES, and for each service they are the existence query, then the
\* stop, then the disable
C8_StrictSequence ==
    /\ Cardinality(inflight) <= 1
    /\ \A c \in inflight : log # <<>> /\ c = log[Len(log)]
    /\ \A p, q \in 1..Len(log) :
          p < q => IndexOf(log[p].svc) <= IndexOf(log[q].svc)
    /\ \A s \in SvcSet :
          LET mine == VerbsOf(SelectSeq(log, LAMBDA e : e.svc = s))
              full == <<"list-unit-files", "stop", "disable">>
          IN  /\ Len(mine) <= 3
              /\ mine = SubSeq(full, 1, Len(mine))
    /\ \A k \in 1..Len(log) : IsStateCmd(log[k]) => CmdUnit(log[k]) = log[k].svc

\* a finished run that stopped and disabled two services one after the other
C8_Witness ==
    /\ pc = "exited"
    /\ Len(log) >= 6
    /\ log[1].svc = SERVICES[1]
    /\ Verb(log[3].argv) = "disable"
    /\ log[4].svc = SERVICES[2]
    /\ Verb(log[4].argv) = "list-unit-files"

\* the condition under which C9 says service_exists returns true
C9_Matches(s, o) ==
    /\ o.kind = "completed"
    /\ o.code = 0
    /\ Strip(o.stdout) # <<>>
    /\ \E k \in 1..Len(o.stdout) :
          o.stdout[k] # <<>> /\ o.stdout[k][1] = Target(s)

\* C9: service_exists returns true exactly when the listing exits with 0, is
\* not empty and has a line whose first token is svc + ".service", and
\* returns false in every other case
C9_ExactMatch ==
    fnRet # "none" =>
        /\ C9_Matches(fnSvc, fnOut) => fnRet = "True"
        /\ ~C9_Matches(fnSvc, fnOut) => fnRet = "False"

\* C10: a listing that failed or came back empty makes main treat the service
\* as not installed: "not found" is printed, the loop moves on without a stop
\* or disable, also for an installed unit; every service has its own query
C10_FailedQueryMeansAbsent ==
    /\ [][(pc = "scan" /\ (res.code # 0 \/ res.out = <<>>)) =>
             /\ reported' = [reported EXCEPT ![svc] = "False"]
             /\ console' = Append(console, Msg("not_found", svc))
             /\ log' = log
             /\ pc' = "loop"
             /\ i' = i + 1]_vars
    /\ [](\A s \in SvcSet :
             /\ reported[s] = "False" => StateCmdsFor(s) = <<>>
             /\ reported[s] # "none" =>
                  Len(SelectSeq(log, LAMBDA e :
                        e.svc = s /\ Verb(e.argv) = "list-unit-files")) = 1)

\* the query for an installed unit has just failed with a nonzero code and the
\* loop has passed the unit over
C10_Witness ==
    /\ pc = "loop"
    /\ i = 2
    /\ failed
    /\ host[Svcs[1]].installed
    /\ reported[Svcs[1]] = "False"
    /\ Printed(Msg("not_found", Svcs[1]))
    /\ StateCmdsFor(Svcs[1]) = <<>>

====
